---------------------------- MODULE Spec2Model ----------------------------
(***************************************************************************)
(* A model of the MYQR backend: the /generate-pdf endpoint of main.py     *)
(* (rate limiter, request validation, logo upload, background cleanup)     *)
(* and the QR styling / poster pipeline of utils.py (QRDesigner,           *)
(* PosterDesigner).                                                        *)
(*                                                                         *)
(* The program parts do not share state, so each is a specification of    *)
(* its own over its own variables; the variables of the other parts stay  *)
(* at their idle values:                                                   *)
(*   SpecLimiter  SimpleRateLimiter.is_allowed                             *)
(*   Spec         concurrent generation requests over one file system      *)
(*   SpecColor    QRRequest.validate_hex_color in front of the pipeline    *)
(*   SpecRender   the dot loop of QRDesigner.create_styled_qr              *)
(*   SpecPdf      PosterDesigner._create_pdf, primitive by primitive       *)
(*   SpecPayload  the UPI link built by PosterDesigner.generate_poster     *)
(*                                                                         *)
(* Strings are sequences of one-character strings.                         *)
(***************************************************************************)
EXTENDS Integers, Sequences, FiniteSets, TLC

VARIABLES
    \* SimpleRateLimiter
    history,      \* self.history: ip -> list of timestamps (a dict: partial)
    now,          \* the clock value read by the last is_allowed call
    lastCall,     \* the last call: its ip and its answer
    granted,      \* history of the run: ip -> every timestamp answered True
    refused,      \* history of the run: the ips that were ever answered False
    \* Generation requests and the file system they share
    pc,           \* request -> where it stands in the endpoint / the pipeline
    via,          \* request -> "endpoint" (generate_pdf_endpoint) or "direct" (generate_qr_pdf)
    logo_path,    \* request -> the logo path handed to generate_poster
    temp_dir,     \* request -> PosterDesigner.temp_dir, its Session Workspace
    qr_img_path,  \* request -> the finished QR raster returned by create_styled_qr
    pdf_path,     \* request -> the poster path of generate_poster
    stages,       \* history of the run: request -> the pipeline stages it entered
    failedAt,     \* history of the run: request -> the stage that raised, or "none"
    dirs,         \* directory name -> the request whose mkdtemp made it, "none" when absent
    files,        \* path -> content, for every file that exists
    created,      \* history of the run: request -> the workspace artifacts it wrote
    breach,       \* history of the run: request -> its accesses outside a live workspace of its own
    \* QRRequest color validation in front of the pipeline
    colPc,        \* the field being validated, then "validated", "pipeline" or "rejected"
    color_in,     \* field -> the form value received
    color_out,    \* field -> the value QRRequest holds after validate_hex_color
    \* The dot loop of create_styled_qr
    modules,      \* the QR symbol: its side and its dark cells
    loop,         \* the loop variables y, x and whether the loops have ended
    circles,      \* the bounding boxes handed to draw.ellipse, in drawing order
    \* _create_pdf
    pdf_in,       \* the arguments of _create_pdf
    pdfPc,        \* the next block of _create_pdf
    ops,          \* the drawing primitives placed on the canvas so far
    saved,        \* the primitives written out by c.save(), << >> before
    \* The payment link
    link_in,      \* shop_name and upi_id handed to generate_poster
    upi_link      \* the payload built from them, << >> before

limVars == <<history, now, lastCall, granted, refused>>
pipeVars == <<pc, via, logo_path, temp_dir, qr_img_path, pdf_path, stages, failedAt,
              dirs, files, created, breach>>

colVars == <<colPc, color_in, color_out>>
renderVars == <<modules, loop, circles>>
pdfVars == <<pdf_in, pdfPc, ops, saved>>
linkVars == <<link_in, upi_link>>

vars == <<limVars, pipeVars, colVars, renderVars, pdfVars, linkVars>>

\* What an action of one part leaves alone: the variables of the other parts
notLimiter == <<pipeVars, colVars, renderVars, pdfVars, linkVars>>
notPipeline == <<limVars, colVars, renderVars, pdfVars, linkVars>>
notColor == <<limVars, pipeVars, renderVars, pdfVars, linkVars>>
notRender == <<limVars, pipeVars, colVars, pdfVars, linkVars>>
notPdf == <<limVars, pipeVars, colVars, renderVars, linkVars>>
notLink == <<limVars, pipeVars, colVars, renderVars, pdfVars>>

----------------------------------------------------------------------------
(* Generic helpers                                                         *)

Range(s) == {s[i] : i \in DOMAIN s}

\* All sequences over S of length 0..n
SeqsUpTo(S, n) == UNION {[1..k -> S] : k \in 0..n}

----------------------------------------------------------------------------
(* Generation requests: generate_pdf_endpoint (main.py 121-180) with its   *)
(* background cleanup_task (108-117), and generate_qr_pdf (utils.py        *)
(* 189-205), both driving PosterDesigner.generate_poster (utils.py 84-186) *)
(* and QRDesigner.create_styled_qr (23-55).  Requests interleave stage by  *)
(* stage over one file system.                                             *)

Requests == {"r1", "r2"}

\* Names tempfile.mkdtemp(prefix="myqr_") can hand out
DirNames == {"myqr_a", "myqr_b", "myqr_c"}

\* A path is <<directory, prefix, unique part>>
NonePath == <<"None", "", "">>
EmptyPath == <<"", "", "">>

\* Logo files a direct caller may name: a decodable one, an undecodable one and
\* a path at which no file exists
AssetGood == <<"assets", "logo", "good">>
AssetCorrupt == <<"assets", "logo", "corrupt">>
AssetMissing == <<"assets", "logo", "missing">>

\* main.py 102: temp_uploads/<uuid4>_<filename>
UploadPath(r) == <<"temp_uploads", "logo", r>>

\* utils.py 27, 49, 96: os.path.join(self.temp_dir, f"<prefix>_{uuid4().hex}.<ext>")
ArtifactPath(d, prefix, r) == <<d, prefix, r>>

\* os.path.exists
Exists(p) == p \in DOMAIN files

\* Python truthiness of a path argument: None and "" are falsy
Truthy(p) == p # NonePath /\ p # EmptyPath

WriteFile(fs, p, content) ==
    [q \in DOMAIN fs \cup {p} |-> IF q = p THEN content ELSE fs[q]]

RemoveFile(fs, p) == [q \in DOMAIN fs \ {p} |-> fs[q]]

\* shutil.rmtree(d): the directory and everything in it
RemoveTree(fs, d) == [q \in {x \in DOMAIN fs : x[1] # d} |-> fs[q]]

\* What an access of request r to path p, or to directory p[1], amounts to
Access(r, p) ==
    IF dirs[p[1]] = r THEN {}
    ELSE IF dirs[p[1]] = "none" THEN {"torn_down"} ELSE {"foreign"}

\* utils.py 86: tempfile.mkdtemp creates a directory that did not exist
MkdtempAnyName(ds) == DirNames
Mkdtemp(ds) == {d \in DirNames : ds[d] = "none"}

IdlePipeline ==
    /\ pc = [r \in Requests |-> "start"]
    /\ via = [r \in Requests |-> "none"]
    /\ logo_path = [r \in Requests |-> NonePath]
    /\ temp_dir = [r \in Requests |-> "none"]
    /\ qr_img_path = [r \in Requests |-> NonePath]
    /\ pdf_path = [r \in Requests |-> NonePath]
    /\ stages = [r \in Requests |-> << >>]
    /\ failedAt = [r \in Requests |-> "none"]
    /\ dirs = [d \in DirNames |-> "none"]
    /\ files = (AssetGood :> "good") @@ (AssetCorrupt :> "corrupt")
    /\ created = [r \in Requests |-> {}]
    /\ breach = [r \in Requests |-> {}]

\* The file systems a write that raises can leave: nothing, or a truncated file
FailedWrite(fs, p) == {fs, WriteFile(fs, p, "partial")}

\* An exception leaves the pipeline from `stage` (utils.py 53-55, 101-103: logged, re-raised)
Raise(r, stage) ==
    /\ failedAt' = [failedAt EXCEPT ![r] = stage]
    /\ pc' = [pc EXCEPT ![r] = "raised"]

Enter(r, stage) == stages' = [stages EXCEPT ![r] = Append(@, stage)]

\* main.py 133-151: the request passed the limiter; QRRequest validation and
\* save_temp_logo either raise (ValidationError, HTTPException 400 for a content
\* type outside ALLOWED_IMAGE_TYPES) or leave logo_path None or a fresh upload
EndpointReceive(r) ==
    /\ pc[r] = "start"
    /\ via' = [via EXCEPT ![r] = "endpoint"]
    /\ \E upload \in {"rejected", "absent", "good", "corrupt"} :
         CASE upload = "rejected" ->
                /\ pc' = [pc EXCEPT ![r] = "raised"]
                /\ UNCHANGED <<logo_path, files>>
           [] upload = "absent" ->
                /\ pc' = [pc EXCEPT ![r] = "designer"]
                /\ UNCHANGED <<logo_path, files>>
           [] OTHER ->
                /\ pc' = [pc EXCEPT ![r] = "designer"]
                /\ logo_path' = [logo_path EXCEPT ![r] = UploadPath(r)]
                /\ files' = WriteFile(files, UploadPath(r), upload)
    /\ UNCHANGED <<temp_dir, qr_img_path, pdf_path, stages, failedAt, dirs, created, breach>>
    /\ UNCHANGED notPipeline

\* utils.py 189-190: generate_qr_pdf called with any logo_path
DirectCall(r) ==
    /\ pc[r] = "start"
    /\ via' = [via EXCEPT ![r] = "direct"]
    /\ \E lp \in {NonePath, EmptyPath, AssetGood, AssetCorrupt, AssetMissing} :
         logo_path' = [logo_path EXCEPT ![r] = lp]
    /\ pc' = [pc EXCEPT ![r] = "designer"]
    /\ UNCHANGED <<temp_dir, qr_img_path, pdf_path, stages, failedAt, dirs, files,
                   created, breach>>
    /\ UNCHANGED notPipeline

\* utils.py 85-87: PosterDesigner()
NewDesigner(r) ==
    /\ pc[r] = "designer"
    /\ \E d \in Mkdtemp(dirs) :
         /\ temp_dir' = [temp_dir EXCEPT ![r] = d]
         /\ dirs' = [dirs EXCEPT ![d] = r]
    /\ pc' = [pc EXCEPT ![r] = "encode"]
    /\ UNCHANGED <<via, logo_path, qr_img_path, pdf_path, stages, failedAt, files,
                   created, breach>>
    /\ UNCHANGED notPipeline

\* utils.py 94, 26: the payload is built and segno.make encodes it, or raises
Encode(r) ==
    /\ pc[r] = "encode"
    /\ Enter(r, "encode")
    /\ \E ok \in BOOLEAN :
         IF ok THEN pc' = [pc EXCEPT ![r] = "render"] /\ UNCHANGED failedAt
               ELSE Raise(r, "encode")
    /\ UNCHANGED <<via, logo_path, temp_dir, qr_img_path, pdf_path, dirs, files,
                   created, breach>>
    /\ UNCHANGED notPipeline

\* utils.py 27-43: the raw raster is saved into the workspace, read back and
\* rendered as dots
RenderModules(r) ==
    LET raw == ArtifactPath(temp_dir[r], "raw", r) IN
    /\ pc[r] = "render"
    /\ Enter(r, "render")
    /\ breach' = [breach EXCEPT ![r] = @ \cup Access(r, raw)]
    /\ \E outcome \in {"ok", "save_raised", "render_raised"} :
         CASE outcome = "ok" ->
                /\ files' = WriteFile(files, raw, "complete")
                /\ pc' = [pc EXCEPT ![r] = "logo"]
                /\ UNCHANGED failedAt
           [] outcome = "save_raised" ->
                /\ files' \in FailedWrite(files, raw)
                /\ Raise(r, "render")
           [] OTHER ->
                /\ files' = WriteFile(files, raw, "complete")
                /\ Raise(r, "render")
    /\ created' = [created EXCEPT ![r] = IF raw \in DOMAIN files' THEN @ \cup {raw} ELSE @]
    /\ UNCHANGED <<via, logo_path, temp_dir, qr_img_path, pdf_path, dirs>>
    /\ UNCHANGED notPipeline

\* utils.py 58: Image.open(logo_path).convert("RGBA") decodes the file or raises
Decodable(content) == content = "good"

\* utils.py 45: the overlay runs when the path is truthy and names an existing file
OverlayRuns(lp) == Truthy(lp) /\ Exists(lp)

\* utils.py 45-46, 57-70
LogoOverlay(r) ==
    /\ pc[r] = "logo"
    /\ IF OverlayRuns(logo_path[r])
          THEN /\ Enter(r, "logo")
               /\ IF Exists(logo_path[r]) /\ Decodable(files[logo_path[r]])
                     THEN pc' = [pc EXCEPT ![r] = "finish"] /\ UNCHANGED failedAt
                     ELSE Raise(r, "logo")
          ELSE /\ pc' = [pc EXCEPT ![r] = "finish"]
               /\ UNCHANGED <<stages, failedAt>>
    /\ UNCHANGED <<via, logo_path, temp_dir, qr_img_path, pdf_path, dirs, files,
                   created, breach>>
    /\ UNCHANGED notPipeline

\* utils.py 48-51, 72-82: the frame is finished and saved into the workspace
FinishFrame(r) ==
    LET out == ArtifactPath(temp_dir[r], "qr_final", r) IN
    /\ pc[r] = "finish"
    /\ Enter(r, "finish")
    /\ breach' = [breach EXCEPT ![r] = @ \cup Access(r, out)]
    /\ \E ok \in BOOLEAN :
         IF ok THEN /\ files' = WriteFile(files, out, "complete")
                    /\ qr_img_path' = [qr_img_path EXCEPT ![r] = out]
                    /\ pc' = [pc EXCEPT ![r] = "pdf_draw"]
                    /\ UNCHANGED failedAt
               ELSE /\ files' \in FailedWrite(files, out)
                    /\ Raise(r, "finish")
                    /\ UNCHANGED qr_img_path
    /\ created' = [created EXCEPT ![r] = IF out \in DOMAIN files' THEN @ \cup {out} ELSE @]
    /\ UNCHANGED <<via, logo_path, temp_dir, pdf_path, dirs>>
    /\ UNCHANGED notPipeline

\* utils.py 96, 106-184: the poster path is chosen and the page is drawn on an
\* in-memory canvas; drawImage reads the finished QR raster
CreatePdfDraw(r) ==
    /\ pc[r] = "pdf_draw"
    /\ Enter(r, "pdf")
    /\ pdf_path' = [pdf_path EXCEPT ![r] = ArtifactPath(temp_dir[r], "poster", r)]
    /\ breach' = [breach EXCEPT ![r] = @ \cup Access(r, qr_img_path[r])]
    /\ \E ok \in BOOLEAN :
         IF ok /\ Exists(qr_img_path[r])
            THEN pc' = [pc EXCEPT ![r] = "pdf_save"] /\ UNCHANGED failedAt
            ELSE Raise(r, "pdf")
    /\ UNCHANGED <<via, logo_path, temp_dir, qr_img_path, dirs, files, created>>
    /\ UNCHANGED notPipeline

\* utils.py 186: c.save() opens pdf_path and writes the document out; when it
\* raises, what it wrote so far stays on disk (generate_poster's handler,
\* 101-103, logs and re-raises and removes nothing)
SaveRaised(fs, p) == FailedWrite(fs, p)

\* utils.py 186, 100
CreatePdfSave(r) ==
    /\ pc[r] = "pdf_save"
    /\ breach' = [breach EXCEPT ![r] = @ \cup Access(r, pdf_path[r])]
    /\ \E ok \in BOOLEAN :
         IF ok THEN /\ files' = WriteFile(files, pdf_path[r], "complete")
                    /\ pc' = [pc EXCEPT ![r] = "returned"]
                    /\ UNCHANGED failedAt
               ELSE /\ files' \in SaveRaised(files, pdf_path[r])
                    /\ Raise(r, "pdf")
    /\ created' = [created EXCEPT ![r] =
                      IF pdf_path[r] \in DOMAIN files' THEN @ \cup {pdf_path[r]} ELSE @]
    /\ UNCHANGED <<via, logo_path, temp_dir, qr_img_path, pdf_path, stages, dirs>>
    /\ UNCHANGED notPipeline

\* main.py 177-180: the endpoint's handler removes the uploaded logo, nothing
\* else, and answers 500
HandleError(r) ==
    /\ pc[r] = "raised"
    /\ via[r] = "endpoint"
    /\ files' = IF Truthy(logo_path[r]) /\ Exists(logo_path[r])
                   THEN RemoveFile(files, logo_path[r]) ELSE files
    /\ pc' = [pc EXCEPT ![r] = "failed"]
    /\ UNCHANGED <<via, logo_path, temp_dir, qr_img_path, pdf_path, stages, failedAt,
                   dirs, created, breach>>
    /\ UNCHANGED notPipeline

\* main.py 165-175: the FileResponse sends the poster; cleanup_task is its
\* background task and starts once the response is out
Deliver(r) ==
    /\ pc[r] = "returned"
    /\ via[r] = "endpoint"
    /\ Exists(pdf_path[r])
    /\ breach' = [breach EXCEPT ![r] = @ \cup Access(r, pdf_path[r])]
    /\ pc' = [pc EXCEPT ![r] = "cleanup_pdf"]
    /\ UNCHANGED <<via, logo_path, temp_dir, qr_img_path, pdf_path, stages, failedAt,
                   dirs, files, created>>
    /\ UNCHANGED notPipeline

\* main.py 109-111: after the sleep, the poster is removed when it exists
CleanupPdf(r) ==
    /\ pc[r] = "cleanup_pdf"
    /\ breach' = [breach EXCEPT ![r] = @ \cup Access(r, pdf_path[r])]
    /\ files' = IF Truthy(pdf_path[r]) /\ Exists(pdf_path[r])
                   THEN RemoveFile(files, pdf_path[r]) ELSE files
    /\ pc' = [pc EXCEPT ![r] = "cleanup_logo"]
    /\ UNCHANGED <<via, logo_path, temp_dir, qr_img_path, pdf_path, stages, failedAt,
                   dirs, created>>
    /\ UNCHANGED notPipeline

\* main.py 112
CleanupLogo(r) ==
    /\ pc[r] = "cleanup_logo"
    /\ files' = IF Truthy(logo_path[r]) /\ Exists(logo_path[r])
                   THEN RemoveFile(files, logo_path[r]) ELSE files
    /\ pc' = [pc EXCEPT ![r] = "cleanup_dir"]
    /\ UNCHANGED <<via, logo_path, temp_dir, qr_img_path, pdf_path, stages, failedAt,
                   dirs, created, breach>>
    /\ UNCHANGED notPipeline

\* main.py 113-114: shutil.rmtree of the workspace when it exists
CleanupDir(r) ==
    LET d == temp_dir[r] IN
    /\ pc[r] = "cleanup_dir"
    /\ IF dirs[d] # "none"
          THEN /\ files' = RemoveTree(files, d)
               /\ dirs' = [dirs EXCEPT ![d] = "none"]
               /\ breach' = [breach EXCEPT ![r] = @ \cup Access(r, <<d, "", "">>)]
          ELSE UNCHANGED <<files, dirs, breach>>
    /\ pc' = [pc EXCEPT ![r] = "done"]
    /\ UNCHANGED <<via, logo_path, temp_dir, qr_img_path, pdf_path, stages, failedAt,
                   created>>
    /\ UNCHANGED notPipeline

NextPipeline ==
    \E r \in Requests :
        \/ EndpointReceive(r)
        \/ DirectCall(r)
        \/ NewDesigner(r)
        \/ Encode(r)
        \/ RenderModules(r)
        \/ LogoOverlay(r)
        \/ FinishFrame(r)
        \/ CreatePdfDraw(r)
        \/ CreatePdfSave(r)
        \/ HandleError(r)
        \/ Deliver(r)
        \/ CleanupPdf(r)
        \/ CleanupLogo(r)
        \/ CleanupDir(r)


----------------------------------------------------------------------------
(* SimpleRateLimiter (main.py 68-80).  The class takes limit and window   *)
(* as constructor parameters (defaults 20 and 60); the model checks a      *)
(* small instance of the same code.                                        *)

limit == 2
window == 3
MaxTime == 5

IPs == {"ip1", "ip2"}

\* main.py 77: [t for t in self.history[ip] if now - t < self.window]
Prune(h, t) == SelectSeq(h, LAMBDA x : t - x < window)

\* main.py 78: len(self.history[ip]) >= self.limit
OverLimitOffByOne(h) == Len(h) > limit
OverLimit(h) == Len(h) >= limit

\* main.py 76: a missing key reads as the empty list
HistoryOf(hist, ip) == IF ip \in DOMAIN hist THEN hist[ip] ELSE << >>

SetHistory(hist, ip, h) ==
    [i \in DOMAIN hist \cup {ip} |-> IF i = ip THEN h ELSE hist[i]]

\* main.py 74-80, the call is_allowed(ip) with time.time() = t
is_allowed(ip, t) ==
    LET h == Prune(HistoryOf(history, ip), t) IN
    /\ now' = t
    /\ IF OverLimit(h)
          THEN /\ history' = SetHistory(history, ip, h)
               /\ lastCall' = [ip |-> ip, ok |-> FALSE]
               /\ granted' = granted
               /\ refused' = refused \cup {ip}
          ELSE /\ history' = SetHistory(history, ip, Append(h, t))
               /\ lastCall' = [ip |-> ip, ok |-> TRUE]
               /\ granted' = [granted EXCEPT ![ip] = Append(@, t)]
               /\ refused' = refused

\* main.py 133-134: a request from any client, the clock never runs back
IsAllowedCall ==
    /\ \E ip \in IPs : \E t \in now..MaxTime : is_allowed(ip, t)
    /\ UNCHANGED notLimiter

IdleLimiter ==
    /\ history = << >>
    /\ now = 0
    /\ lastCall = [ip |-> "none", ok |-> TRUE]
    /\ granted = [ip \in IPs |-> << >>]
    /\ refused = {}

NextLimiter == IsAllowedCall

----------------------------------------------------------------------------
(* QRRequest.validate_hex_color (main.py 31, 47-51) and the call of        *)
(* generate_poster with the validated colors (main.py 141-161)             *)

MaxColorLen == 7

\* The characters of the form values tried: a hex digit in upper case, one in
\* lower case is what lower() makes of it, a letter that is no hex digit, and
\* the line feed
ColorChars == {"#", "A", "g", "\n"}

ColorInputs == SeqsUpTo(ColorChars, MaxColorLen)

ColorFields == {"primary_color", "text_color"}

HexDigits == {"0", "1", "2", "3", "4", "5", "6", "7", "8", "9",
              "a", "b", "c", "d", "e", "f", "A", "B", "C", "D", "E", "F"}

\* "#" and then n hex digits
HashHex(v, n) ==
    /\ Len(v) = n + 1
    /\ v[1] = "#"
    /\ \A i \in 2..Len(v) : v[i] \in HexDigits

\* main.py 31, 49: HEX_COLOR_PATTERN.match(v) with ^#(?:[0-9a-fA-F]{3}){1,2}$ :
\* "#" and one or two groups of three hex digits, and "$" also matches just
\* before a line feed that ends the string
HexColorMatch(v) ==
    LET body == IF Len(v) > 0 /\ v[Len(v)] = "\n" THEN {v, SubSeq(v, 1, Len(v) - 1)}
                                                 ELSE {v}
    IN  \E w \in body : HashHex(w, 3) \/ HashHex(w, 6)

\* str.lower() on the characters tried
LowerChar(c) ==
    CASE c = "A" -> "a" [] c = "B" -> "b" [] c = "C" -> "c"
      [] c = "D" -> "d" [] c = "E" -> "e" [] c = "F" -> "f" [] OTHER -> c

Lower(v) == [i \in DOMAIN v |-> LowerChar(v[i])]

\* main.py 47-51 for one field of the form: ValueError rejects the request
\* (main.py 177-180 answers 500), otherwise the field holds v.lower()
ValidateHexColor(f, next) ==
    /\ colPc = f
    /\ \E v \in ColorInputs :
         /\ color_in' = [color_in EXCEPT ![f] = v]
         /\ IF HexColorMatch(v)
               THEN /\ color_out' = [color_out EXCEPT ![f] = Lower(v)]
                    /\ colPc' = next
               ELSE /\ colPc' = "rejected"
                    /\ UNCHANGED color_out
    /\ UNCHANGED notColor

ValidatePrimaryColor == ValidateHexColor("primary_color", "text_color")

ValidateTextColor == ValidateHexColor("text_color", "validated")

\* main.py 153-163: generate_poster is called with req_data's colors
InvokePipeline ==
    /\ colPc = "validated"
    /\ colPc' = "pipeline"
    /\ UNCHANGED <<color_in, color_out>>
    /\ UNCHANGED notColor

IdleColor ==
    /\ colPc = "primary_color"
    /\ color_in = [f \in ColorFields |-> << >>]
    /\ color_out = [f \in ColorFields |-> << >>]

NextColor == ValidatePrimaryColor \/ ValidateTextColor \/ InvokePipeline

----------------------------------------------------------------------------
(* The dot loop of QRDesigner.create_styled_qr (utils.py 26-43)            *)

MaxModules == 3

\* utils.py 28: qr.save(..., scale=20, border=0); utils.py 39-42 step by it
scale == 20
\* utils.py 33
upscale == 4
\* utils.py 41: the sample lies 10 pixels into the cell and is dark below 128
sample_offset == 10
dark_threshold == 128

\* utils.py 28, 30-31: the raw raster has `scale` pixels per module and no border
RawSize(m) == m.side * scale

\* utils.py 30: getpixel on the grey raw raster, 0 for a dark module, 255 for a light one
GetPixel(m, px, py) == IF <<px \div scale, py \div scale>> \in m.dark THEN 0 ELSE 255

\* utils.py 34-35
canvas_size(m) == RawSize(m) * upscale

\* utils.py 42-43: the bounding box of the dot of the cell at raw pixel (x, y);
\* draw.ellipse paints the columns x0..x1 and the rows y0..y1, both ends included
Box(x, y) ==
    [x0 |-> x * upscale, y0 |-> y * upscale,
     x1 |-> (x + scale) * upscale, y1 |-> (y + scale) * upscale]

\* utils.py 39-43: one pass of the inner loop body, then the loop headers
DrawCell ==
    /\ ~loop.ended
    /\ circles' = IF GetPixel(modules, loop.x + sample_offset, loop.y + sample_offset)
                       < dark_threshold
                     THEN Append(circles, Box(loop.x, loop.y))
                     ELSE circles
    /\ loop' = IF loop.x + scale < RawSize(modules)
                  THEN [loop EXCEPT !.x = @ + scale]
                  ELSE IF loop.y + scale < RawSize(modules)
                          THEN [loop EXCEPT !.x = 0, !.y = @ + scale]
                          ELSE [loop EXCEPT !.ended = TRUE]
    /\ UNCHANGED modules
    /\ UNCHANGED notRender

IdleRender ==
    /\ modules = [side |-> 0, dark |-> {}]
    /\ loop = [x |-> 0, y |-> 0, ended |-> TRUE]
    /\ circles = << >>

\* utils.py 26: segno.make gives any square symbol
InitRender ==
    /\ \E n \in 1..MaxModules :
         \E d \in SUBSET ((0..(n - 1)) \X (0..(n - 1))) :
            modules = [side |-> n, dark |-> d]
    /\ loop = [x |-> 0, y |-> 0, ended |-> FALSE]
    /\ circles = << >>

NextRender == DrawCell

----------------------------------------------------------------------------
(* PosterDesigner._create_pdf (utils.py 105-186).  Lengths are whole       *)
(* numbers of a unit in which the inch, the point (1/72 inch) and the      *)
(* millimetre (1/25.4 inch) are all integers.                              *)

MaxTextLen == 1

\* reportlab.lib.units.inch (utils.py 5), in model units
inch == 228600
pt == inch \div 72
mm == (inch * 10) \div 254

\* utils.py 106-107: A4
page_width == 210 * mm
page_height == 297 * mm

\* utils.py 114, 128-130, 138, 147, 166, 172-173
header_height == (24 * inch) \div 10
qr_display_size == (44 * inch) \div 10
qr_x == (page_width - qr_display_size) \div 2
qr_y == (page_height \div 2) - (qr_display_size \div 2) + (5 * inch) \div 10
details_y == qr_y - (6 * inch) \div 10
social_y0 == details_y - (9 * inch) \div 10
line_step == (25 * inch) \div 100
footer_base_y == (8 * inch) \div 10
badge_y == footer_base_y + inch \div 10
center_x == page_width \div 2

\* The characters of the text arguments tried
TextChars == {"a", "B", "@"}
Text == SeqsUpTo(TextChars, MaxTextLen)

\* str.upper() on the characters tried
UpperChar(c) == CASE c = "a" -> "A" [] c = "b" -> "B" [] OTHER -> c
Upper(v) == [i \in DOMAIN v |-> UpperChar(v[i])]

\* utils.py 157: instagram.replace('@', '')
StripAt(v) == SelectSeq(v, LAMBDA c : c # "@")

\* One drawing primitive on the canvas: the canvas call, its anchor, its text
\* and the fill (for a line, the stroke) color in force
Prim(role, op, x, y, text, fill) ==
    [role |-> role, op |-> op, x |-> x, y |-> y, text |-> text, fill |-> fill]

\* utils.py 110-111
BackgroundOps == <<Prim("background", "rect", 0, 0, << >>, "#F8F9FA")>>

\* utils.py 115-116
HeaderOps(a) ==
    <<Prim("header", "rect", 0, page_height - header_height, << >>, a.primary_color)>>

\* utils.py 119-121
TitleOps(a) ==
    <<Prim("title", "drawCentredString", page_width \div 2, page_height - inch,
           Upper(a.shop_name), "#FFFFFF")>>

\* utils.py 123-125
TaglineOpsAlways(a) ==
    <<Prim("tagline", "drawCentredString", page_width \div 2,
           page_height - (14 * inch) \div 10, a.tagline, "#FFFFFF")>>
TaglineOps(a) ==
    IF a.tagline # << >>
       THEN <<Prim("tagline", "drawCentredString", page_width \div 2,
                   page_height - (14 * inch) \div 10, a.tagline, "#FFFFFF")>>
       ELSE << >>

\* utils.py 133-134
ShadowOps == <<Prim("shadow", "roundRect", qr_x + 3 * pt, qr_y - 3 * pt, << >>, "#E0E0E0")>>

\* utils.py 135
QrOps == <<Prim("qr", "drawImage", qr_x, qr_y, << >>, "")>>

\* utils.py 139-141
ScanToPayOps(a) ==
    <<Prim("scan_to_pay", "drawCentredString", page_width \div 2, details_y,
           <<"S", "C", "A", "N", " ", "T", "O", " ", "P", "A", "Y">>, a.text_color)>>

\* utils.py 142-144
PaymentIdOps(a) ==
    <<Prim("payment_id", "drawCentredString", page_width \div 2,
           details_y - (3 * inch) \div 10,
           <<"U", "P", "I", " ", "I", "D", ":", " ">> \o a.upi_id, "#444444")>>

\* The two text lines of the social block, the website line at height y
HandleLine(a, y) ==
    Prim("handle", "drawCentredString", page_width \div 2, y,
         <<" ", " ", "@">> \o StripAt(a.instagram), a.primary_color)
WebsiteLine(a, y) ==
    Prim("website", "drawCentredString", page_width \div 2, y,
         <<"<globe>", " ", " ">> \o Lower(a.website), "#666666")

\* utils.py 147-163 with the website line one step down whether or not the
\* handle line is drawn
SocialOpsFixedSlots(a) ==
    IF a.instagram # << >> \/ a.website # << >>
       THEN <<Prim("divider", "line", 2 * inch, social_y0 + (2 * inch) \div 10, << >>, "#EEEEEE")>>
            \o (IF a.instagram # << >> THEN <<HandleLine(a, social_y0)>> ELSE << >>)
            \o (IF a.website # << >> THEN <<WebsiteLine(a, social_y0 - line_step)>> ELSE << >>)
       ELSE << >>

\* utils.py 147-163: the divider, then the handle line at social_y, which then
\* moves down one step, then the website line at social_y
SocialOps(a) ==
    LET social_y == IF a.instagram # << >> THEN social_y0 - line_step ELSE social_y0 IN
    IF a.instagram # << >> \/ a.website # << >>
       THEN <<Prim("divider", "line", 2 * inch, social_y0 + (2 * inch) \div 10, << >>, "#EEEEEE")>>
            \o (IF a.instagram # << >> THEN <<HandleLine(a, social_y0)>> ELSE << >>)
            \o (IF a.website # << >> THEN <<WebsiteLine(a, social_y)>> ELSE << >>)
       ELSE << >>

\* utils.py 167-169
FooterOps ==
    <<Prim("footer", "drawCentredString", page_width \div 2,
           footer_base_y + (5 * inch) \div 10,
           <<"A", "C", "C", "E", "P", "T", "E", "D", " ", "O", "N", " ", "A", "L", "L", " ", "U", "P", "I", " ", "A", "P", "P", "S">>,
           "#666666")>>

\* utils.py 182-184: the three calls of draw_badge
Badges ==
    <<[x |-> center_x - 90 * pt, text |-> <<"G", "P", "a", "y">>, color |-> "#4285F4"],
      [x |-> center_x, text |-> <<"P", "h", "o", "n", "e", "P", "e">>, color |-> "#5F259F"],
      [x |-> center_x + 90 * pt, text |-> <<"P", "a", "y", "t", "m">>, color |-> "#00BAF2"]>>

\* utils.py 175-180: draw_badge(x, y, text, color)
BadgeOps(b) ==
    <<Prim("badge", "roundRect", b.x - 35 * pt, badge_y - 10 * pt, << >>, b.color),
      Prim("badge_label", "drawCentredString", b.x, badge_y - 3 * pt, b.text, "#FFFFFF")>>

\* The next block of _create_pdf places its primitives on the canvas
Place(at, next, prims) ==
    /\ pdfPc = at
    /\ ops' = ops \o prims
    /\ pdfPc' = next
    /\ UNCHANGED <<pdf_in, saved>>
    /\ UNCHANGED notPdf

DrawBackground == Place("background", "header", BackgroundOps)
DrawHeader == Place("header", "title", HeaderOps(pdf_in))
DrawTitle == Place("title", "tagline", TitleOps(pdf_in))
DrawTagline == Place("tagline", "shadow", TaglineOps(pdf_in))
DrawShadow == Place("shadow", "qr", ShadowOps)
DrawQr == Place("qr", "scan_to_pay", QrOps)
DrawScanToPay == Place("scan_to_pay", "payment_id", ScanToPayOps(pdf_in))
DrawPaymentId == Place("payment_id", "social", PaymentIdOps(pdf_in))
DrawSocial == Place("social", "footer", SocialOps(pdf_in))
DrawFooter == Place("footer", "badge1", FooterOps)
DrawBadge1 == Place("badge1", "badge2", BadgeOps(Badges[1]))
DrawBadge2 == Place("badge2", "badge3", BadgeOps(Badges[2]))
DrawBadge3 == Place("badge3", "save", BadgeOps(Badges[3]))

\* utils.py 186: c.save() writes the page out
SaveCanvas ==
    /\ pdfPc = "save"
    /\ saved' = ops
    /\ pdfPc' = "done"
    /\ UNCHANGED <<pdf_in, ops>>
    /\ UNCHANGED notPdf

IdlePdf ==
    /\ pdf_in = [shop_name |-> << >>, upi_id |-> << >>, tagline |-> << >>,
                 instagram |-> << >>, website |-> << >>,
                 primary_color |-> "", text_color |-> ""]
    /\ pdfPc = "done"
    /\ ops = << >>
    /\ saved = << >>

\* utils.py 105: the arguments of a call; c = canvas.Canvas(...) is empty (106)
InitPdf ==
    /\ pdf_in \in [shop_name : {<<"a", "B">>, <<"B", "@", "a">>},
                   upi_id : {<<"a", "@", "B">>},
                   tagline : {<< >>, <<"B", "a">>},
                   instagram : Text,
                   website : Text,
                   primary_color : {"#646cff"},
                   text_color : {"#000000"}]
    /\ pdfPc = "background"
    /\ ops = << >>
    /\ saved = << >>

NextPdf ==
    \/ DrawBackground \/ DrawHeader \/ DrawTitle \/ DrawTagline \/ DrawShadow
    \/ DrawQr \/ DrawScanToPay \/ DrawPaymentId \/ DrawSocial \/ DrawFooter
    \/ DrawBadge1 \/ DrawBadge2 \/ DrawBadge3 \/ SaveCanvas

----------------------------------------------------------------------------
(* The payment link of PosterDesigner.generate_poster (utils.py 94)        *)

MaxNameLen == 3
MaxUpiLen == 2

NameChars == {"a", " ", "%"}
UpiChars == {"x", "@", " "}

\* shop_name.replace(' ', '%20'): every space, left to right
RECURSIVE ReplaceFirstSpace(_)
ReplaceFirstSpace(v) ==
    IF v = << >> THEN << >>
    ELSE IF v[1] = " " THEN <<"%", "2", "0">> \o Tail(v)
    ELSE <<v[1]>> \o ReplaceFirstSpace(Tail(v))
RECURSIVE ReplaceSpaces(_)
ReplaceSpaces(v) ==
    IF v = << >> THEN << >>
    ELSE (IF v[1] = " " THEN <<"%", "2", "0">> ELSE <<v[1]>>) \o ReplaceSpaces(Tail(v))

LinkHead == <<"u", "p", "i", ":", "/", "/", "p", "a", "y", "?", "p", "a", "=">>
LinkName == <<"&", "p", "n", "=">>

\* utils.py 94: f"upi://pay?pa={upi_id}&pn={shop_name.replace(' ', '%20')}"
UpiLink(shop_name, upi_id) == LinkHead \o upi_id \o LinkName \o ReplaceSpaces(shop_name)

BuildLink ==
    /\ upi_link = << >>
    /\ upi_link' = UpiLink(link_in.shop_name, link_in.upi_id)
    /\ UNCHANGED link_in
    /\ UNCHANGED notLink

IdleLink ==
    /\ link_in = [shop_name |-> << >>, upi_id |-> << >>]
    /\ upi_link = << >>

\* utils.py 89: any shop name and payment id
InitLink ==
    /\ link_in \in [shop_name : SeqsUpTo(NameChars, MaxNameLen),
                    upi_id : SeqsUpTo(UpiChars, MaxUpiLen)]
    /\ upi_link = << >>

NextLink == BuildLink

----------------------------------------------------------------------------
(* The specifications                                                      *)

Init ==
    IdlePipeline /\ IdleLimiter /\ IdleColor /\ IdleRender /\ IdlePdf /\ IdleLink

Next == NextPipeline

Spec == Init /\ [][Next]_vars

InitLimiter == Init

SpecLimiter == InitLimiter /\ [][NextLimiter]_vars

InitColor == Init

SpecColor == InitColor /\ [][NextColor]_vars

InitDots ==
    IdlePipeline /\ IdleLimiter /\ IdleColor /\ InitRender /\ IdlePdf /\ IdleLink

SpecRender == InitDots /\ [][NextRender]_vars

InitPoster ==
    IdlePipeline /\ IdleLimiter /\ IdleColor /\ IdleRender /\ InitPdf /\ IdleLink

SpecPdf == InitPoster /\ [][NextPdf]_vars

InitPayload ==
    IdlePipeline /\ IdleLimiter /\ IdleColor /\ IdleRender /\ IdlePdf /\ InitLink

SpecPayload == InitPayload /\ [][NextLink]_vars

----------------------------------------------------------------------------
(* Claims about the generation requests, checked under Spec                *)

\* generate_poster returned a path to request r
Succeeded(r) == pc[r] \in {"returned", "cleanup_pdf", "cleanup_logo", "cleanup_dir", "done"}

\* The files at a poster path of request r's workspace
PosterFiles(r) == {p \in DOMAIN files : p[1] = temp_dir[r] /\ p[2] = "poster"}

\* C1: generate_poster is all-or-nothing: after a call that failed at any stage
\* no poster file exists in its workspace; when a call has returned its path a
\* complete poster file is at that path; and the stage that failed is the last
\* stage that ran.
C1_AllOrNothing ==
    \A r \in Requests :
        /\ failedAt[r] # "none" => PosterFiles(r) = {}
        /\ pc[r] = "returned" => Exists(pdf_path[r]) /\ files[pdf_path[r]] = "complete"
        /\ failedAt[r] # "none" => stages[r][Len(stages[r])] = failedAt[r]

\* C2: a request whose logo path was supplied (not None, not empty) never
\* succeeds without the logo overlay having run; the overlay is skipped only
\* when no logo path is supplied.
C2_LogoNeverSkipped ==
    \A r \in Requests :
        Truthy(logo_path[r]) /\ Succeeded(r) => "logo" \in Range(stages[r])

\* Request r of the endpoint has ended: its response is out and no cleanup is pending
Ended(r) == via[r] = "endpoint" /\ pc[r] \in {"done", "failed"}

\* C3: the workspace of a request exists, with its files, until the document
\* is delivered, and it is gone (directory and contents) once the request and
\* its cleanup task have ended: no workspace stays on disk forever.
C3_WorkspaceLifecycle ==
    \A r \in Requests :
        /\ pc[r] \in {"encode", "render", "logo", "finish", "pdf_draw", "pdf_save",
                      "returned"}
              => dirs[temp_dir[r]] = r /\ created[r] \subseteq DOMAIN files
        /\ Ended(r) /\ temp_dir[r] # "none"
              => dirs[temp_dir[r]] # r /\ created[r] \cap DOMAIN files = {}

\* Request r holds a workspace that its cleanup has not torn down
Live(r) == temp_dir[r] # "none" /\ pc[r] # "done"

\* The artifact paths request r knows or wrote
Artifacts(r) == created[r] \cup ({qr_img_path[r], pdf_path[r]} \ {NonePath})

\* C4: under every interleaving, live requests hold pairwise distinct
\* workspaces; every artifact of a request lies in its own workspace and in no
\* other live one; every file in a workspace was written by the request that
\* owns it; and no request touched a path in a foreign or torn down workspace.
C4_Isolation ==
    \A r \in Requests :
        /\ breach[r] = {}
        /\ Live(r) => dirs[temp_dir[r]] = r
        /\ \A p \in Artifacts(r) : p[1] = temp_dir[r]
        /\ \A s \in Requests \ {r} :
              Live(r) /\ Live(s) =>
                 /\ temp_dir[r] # temp_dir[s]
                 /\ \A p \in Artifacts(r) : p[1] # temp_dir[s]
        /\ \A p \in DOMAIN files :
              p[1] = temp_dir[r] /\ Live(r) => p \in created[r]

\* Two requests hold workspaces at once: one has its poster written, the other
\* is about to remove its workspace with the finished QR raster still in it
C4_Witness ==
    \E r, s \in Requests :
        /\ r # s /\ Live(r) /\ Live(s)
        /\ pc[r] = "returned" /\ pc[s] = "cleanup_dir"
        /\ Exists(pdf_path[r])
        /\ ArtifactPath(temp_dir[s], "qr_final", s) \in DOMAIN files

----------------------------------------------------------------------------
(* Claims about color validation, checked under SpecColor                  *)

LowerHexDigits == {"0", "1", "2", "3", "4", "5", "6", "7", "8", "9",
                   "a", "b", "c", "d", "e", "f"}

\* "#" followed by exactly six hex digits, in either case
SixHexDigits(v) ==
    /\ Len(v) = 7
    /\ v[1] = "#"
    /\ \A i \in 2..7 : v[i] \in HexDigits

\* C5: a color reaches generate_poster only if the form value is "#" and
\* exactly six hex digits, and it arrives in lower case; any other form value
\* is rejected by validation before the pipeline is invoked.
C5_OnlySixHexDigits ==
    /\ colPc \in {"text_color", "validated", "pipeline"}
          => SixHexDigits(color_in["primary_color"])
    /\ colPc \in {"validated", "pipeline"}
          => SixHexDigits(color_in["text_color"])
    /\ colPc = "pipeline"
          => \A f \in ColorFields :
                /\ Len(color_out[f]) = 7
                /\ color_out[f][1] = "#"
                /\ \A i \in 2..7 : color_out[f][i] \in LowerHexDigits

----------------------------------------------------------------------------
(* Claims about the dot loop, checked under SpecRender                     *)

\* The side of one module's pixel region on the canvas
CellSide == scale * upscale

\* The cell whose region holds the top left corner of a box
CellOf(b) == <<b.x0 \div CellSide, b.y0 \div CellSide>>

\* Two boxes share no pixel
Apart(a, b) == a.x1 < b.x0 \/ b.x1 < a.x0 \/ a.y1 < b.y0 \/ b.y1 < a.y0

\* C6: the loop draws one circle per dark cell and none for a light cell (in
\* all |D| circles once it has ended) on a canvas of side N*20*4; the extent of
\* each circle lies inside its own cell's region, columns and rows
\* [i*80, (i+1)*80 - 1], and the extents of two circles share no pixel.
C6_DotsInsideCells ==
    /\ canvas_size(modules) = modules.side * 20 * 4
    /\ \A k \in DOMAIN circles :
          LET b == circles[k]
              c == CellOf(b)
          IN  /\ c \in modules.dark
              /\ b.x0 >= c[1] * CellSide /\ b.x1 <= (c[1] + 1) * CellSide - 1
              /\ b.y0 >= c[2] * CellSide /\ b.y1 <= (c[2] + 1) * CellSide - 1
    /\ \A k, l \in DOMAIN circles :
          k # l => CellOf(circles[k]) # CellOf(circles[l]) /\ Apart(circles[k], circles[l])
    /\ loop.ended =>
          /\ Len(circles) = Cardinality(modules.dark)
          /\ {CellOf(circles[k]) : k \in DOMAIN circles} = modules.dark

----------------------------------------------------------------------------
(* Claims about the poster page, checked under SpecPdf                     *)

RolesOf(seq) == [i \in DOMAIN seq |-> seq[i].role]

IsPrefix(a, b) == Len(a) <= Len(b) /\ SubSeq(b, 1, Len(a)) = a

Opt(present, role) == IF present THEN <<role>> ELSE << >>

BadgeRoles == <<"badge", "badge_label", "badge", "badge_label", "badge", "badge_label">>

\* The order as the claim states it: the divider after the social block, always
ClaimedOrder(a) ==
    <<"background", "header", "title">> \o Opt(a.tagline # << >>, "tagline")
    \o <<"shadow", "qr", "scan_to_pay", "payment_id">>
    \o Opt(a.instagram # << >>, "handle") \o Opt(a.website # << >>, "website")
    \o <<"divider", "footer">> \o BadgeRoles

\* C7 as stated: the primitives are placed in the order background, header
\* band, title, optional tagline, shadow, QR image, "scan to pay", payment id,
\* optional social lines, horizontal divider, footer label, three badges.
C7_ClaimedDrawOrder ==
    /\ IsPrefix(RolesOf(ops), ClaimedOrder(pdf_in))
    /\ pdfPc = "done" => RolesOf(saved) = ClaimedOrder(pdf_in)

\* The order with the divider as the first primitive of the social block
DrawOrder(a) ==
    <<"background", "header", "title">> \o Opt(a.tagline # << >>, "tagline")
    \o <<"shadow", "qr", "scan_to_pay", "payment_id">>
    \o (IF a.instagram # << >> \/ a.website # << >>
           THEN <<"divider">> \o Opt(a.instagram # << >>, "handle")
                \o Opt(a.website # << >>, "website")
           ELSE << >>)
    \o <<"footer">> \o BadgeRoles

OrderedSoFar ==
    /\ IsPrefix(RolesOf(ops), DrawOrder(pdf_in))
    /\ \A i \in DOMAIN ops :
          ops[i].role = "title" =>
             /\ Len(ops[i].text) = Len(pdf_in.shop_name)
             /\ \A j \in DOMAIN ops[i].text : ops[i].text[j] \notin {"a", "b"}
    /\ pdfPc = "done" => saved = ops /\ RolesOf(saved) = DrawOrder(pdf_in)

\* C7 (amended): the primitives are placed in the order background, header
\* band, uppercased title, optional tagline, shadow, QR image, "scan to pay",
\* payment id, optional social block (the horizontal divider first, then the
\* handle and website lines), footer label, three badges; a placed primitive is
\* never edited or removed; an optional field adds or omits only its own
\* primitives; the page written out is that sequence.
C7_DrawOrder == []OrderedSoFar /\ [][IsPrefix(ops, ops')]_vars

\* A page with tagline and both social lines has been written out
C7_Witness ==
    /\ pdfPc = "done"
    /\ pdf_in.tagline # << >> /\ pdf_in.instagram # << >> /\ pdf_in.website # << >>
    /\ Len(saved) = 18

\* The top line position of the social block: 0.6 + 0.9 inch below the QR image
TopLineY == qr_y - (15 * inch) \div 10

WithRole(role) == {i \in DOMAIN ops : ops[i].role = role}

\* C8: once the social block is passed, the handle line is on the page iff the
\* handle is non-empty and the website line iff the website is non-empty; with
\* both, the handle line is at the top position and the website line 0.25 inch
\* below it; with one, it is at the top position; with none, the block has
\* placed no primitive at all.
C8_SocialBlock ==
    pdfPc \in {"footer", "badge1", "badge2", "badge3", "save", "done"} =>
        LET H == WithRole("handle")
            W == WithRole("website")
        IN  /\ Cardinality(H) = (IF pdf_in.instagram # << >> THEN 1 ELSE 0)
            /\ Cardinality(W) = (IF pdf_in.website # << >> THEN 1 ELSE 0)
            /\ \A h \in H : ops[h].y = TopLineY
            /\ \A w \in W :
                  /\ H = {} => ops[w].y = TopLineY
                  /\ \A h \in H : h < w /\ ops[h].y - ops[w].y = inch \div 4
            /\ H = {} /\ W = {} => WithRole("divider") = {}

\* The social block has placed a website line and no handle line
C8_Witness ==
    /\ pdfPc = "done"
    /\ pdf_in.instagram = << >>
    /\ WithRole("website") # {}

----------------------------------------------------------------------------
(* Claims about the payment link, checked under SpecPayload                *)

\* The spaces of v in front of position i
SpacesBefore(v, i) == Cardinality({j \in 1..(i - 1) : v[j] = " "})

\* C9: the payload is "upi://pay?pa=", the payment id unchanged, "&pn=" and
\* the shop name with each space replaced by "%20" and every other character
\* unchanged in its place; no space of the shop name is left in it.
C9_Payload ==
    upi_link # << >> =>
        LET n == link_in.shop_name
            u == link_in.upi_id
            head == Len(LinkHead) + Len(u) + Len(LinkName)
            rest == SubSeq(upi_link, head + 1, Len(upi_link))
            at(i) == i + 2 * SpacesBefore(n, i)
        IN  /\ SubSeq(upi_link, 1, head) = LinkHead \o u \o LinkName
            /\ Len(rest) = Len(n) + 2 * SpacesBefore(n, Len(n) + 1)
            /\ \A i \in DOMAIN n :
                  IF n[i] = " "
                     THEN SubSeq(rest, at(i), at(i) + 2) = <<"%", "2", "0">>
                     ELSE rest[at(i)] = n[i]
            /\ " " \notin Range(rest)

\* A link was built from a shop name with two spaces and a percent sign
C9_Witness ==
    /\ upi_link # << >>
    /\ SpacesBefore(link_in.shop_name, Len(link_in.shop_name) + 1) = 2
    /\ "%" \in Range(link_in.shop_name)
    /\ " " \in Range(link_in.upi_id)

----------------------------------------------------------------------------
(* Claims about the rate limiter, checked under SpecLimiter                *)

\* The recorded timestamps of h that are younger than the window at time t
Young(h, t) == Cardinality({i \in DOMAIN h : t - h[i] < window})

\* No span shorter than the window holds more than limit granted calls of an ip
RateBound ==
    \A ip \in IPs : \A s \in 0..MaxTime :
        Cardinality({i \in DOMAIN granted[ip] :
                        s <= granted[ip][i] /\ granted[ip][i] < s + window}) <= limit

\* What one is_allowed call (the step to lastCall', now') does
CallStep ==
    LET ip == lastCall'.ip
        h0 == HistoryOf(history, ip)
        h1 == HistoryOf(history', ip)
    IN  /\ ~lastCall'.ok => Len(h1) <= Len(h0) /\ Range(h1) \subseteq Range(h0)
        /\ \A j \in IPs \ {ip} :
              /\ (j \in DOMAIN history') = (j \in DOMAIN history)
              /\ HistoryOf(history', j) = HistoryOf(history, j)
        /\ Young(h0, now') < limit => lastCall'.ok

\* C10: per ip at most limit calls are answered True within any span shorter
\* than window; a call answered False adds no timestamp to the history; a call
\* for one ip leaves every other ip's history (hence its answer) unchanged; and
\* a call is answered True whenever fewer than limit recorded timestamps of its
\* ip are younger than window, also for an ip that was refused before.
C10_RateLimiter == []RateBound /\ [][CallStep]_vars

\* An ip that was refused is answered True again with a full history
C10_Witness ==
    /\ lastCall.ok
    /\ lastCall.ip \in refused
    /\ Len(granted[lastCall.ip]) > limit

=============================================================================
